---- MODULE Spec2Model ----
(***************************************************************************)
(* PayPalPro (paypal/pro/views.py): the class-based view that dispatches   *)
(* each request to one of five handlers of the direct and express flows.   *)
(*                                                                         *)
(* One PayPalPro instance is shared by every request.  Its attributes      *)
(* (item, request, the configuration) are the shared variables below; the  *)
(* locals of a running __call__ are the per-thread functions.  A handler   *)
(* is split where it calls a collaborator (form, record, gateway client).  *)
(* Spec handles one request at a time; SpecConc lets the handlers of       *)
(* several requests interleave between those steps.                        *)
(***************************************************************************)
EXTENDS Integers, Sequences, FiniteSets, TLC

\* ---------------------------------------------------------------- bounds
NumThreads == 2
NumTokens == 2
NumPayerIDs == 2

Threads == 1..NumThreads
Tokens == {"EC-" \o ToString(i) : i \in 1..NumTokens}
PayerIDs == {"PAYER-" \o ToString(i) : i \in 1..NumPayerIDs}

\* ------------------------------------------------------ python dictionaries
\* A dict is a function whose domain is its key set; {} is <<>>.
EmptyDict == <<>>
Has(d, k) == k \in DOMAIN d
Get(d, k) == IF k \in DOMAIN d THEN d[k] ELSE "None"
Update(d, e) == [k \in (DOMAIN d) \cup (DOMAIN e) |-> IF k \in DOMAIN e THEN e[k] ELSE d[k]]
\* Python's None where a dict is expected (item=None is the constructor default).
NoneItem == [k \in {"None"} |-> "None"]
None == "None"

\* ------------------------------------------------------------ constants
EXPRESS_ENDPOINT == "https://www.paypal.com/webscr?cmd=_express-checkout&%s"
SANDBOX_EXPRESS_ENDPOINT == "https://www.sandbox.paypal.com/webscr?cmd=_express-checkout&%s"
ContactError == "There was a problem contacting PayPal. Please try again later."
ProcessingError == "There was a problem processing the payment. Please check your information and try again."
CorrectError == "Please correct the errors below and try again."

\* --------------------------------------------------------------- requests
\* request.GET / request.POST hold the markers the view looks at; the rest of
\* a POST body is summarised by the errors the payment form finds in it.
ErrorTexts == {"acct: This field is required.", "cvv2: Enter a whole number."}
MarkerDicts ==
    { Update([k \in e |-> "1"], Update([k \in tk |-> t], [k \in pk |-> p])) :
        e \in SUBSET {"express"}, tk \in SUBSET {"token"}, pk \in SUBSET {"PayerID"},
        t \in Tokens, p \in PayerIDs }
GetRequests ==
    { [method |-> "GET", GET |-> q, POST |-> EmptyDict,
       form_errors |-> "acct: This field is required."] : q \in MarkerDicts }
PostRequests ==
    { [method |-> "POST", GET |-> EmptyDict, POST |-> b, form_errors |-> e] :
        b \in MarkerDicts, e \in ErrorTexts \cup {""} }
Requests == GetRequests \cup PostRequests
NoRequest == [method |-> "None", GET |-> EmptyDict, POST |-> EmptyDict, form_errors |-> ""]

\* ---------------------------------------------------------------- intents
FullItem == [amt |-> "10.00", returnurl |-> "/return", cancelurl |-> "/cancel"]
Intents == {NoneItem} \cup { [k \in S |-> FullItem[k]] : S \in SUBSET DOMAIN FullItem }

\* ------------------------------------------------------- gateway responses
\* PayPalWPP answers with the parsed name/value pairs of the reply.
Responses ==
    { Update([k \in ak |-> a], [k \in tk |-> t]) :
        ak \in SUBSET {"ACK"}, tk \in SUBSET {"TOKEN"},
        a \in {"Success", "Failure"}, t \in Tokens }
\* payment_obj.process returns whether the payment went through.
ProcessResults == BOOLEAN

\* ----------------------------------------------------------------- forms
NoForm == [cls |-> "None", bound |-> FALSE, data |-> EmptyDict, initial |-> EmptyDict, errors |-> ""]
\* form_cls(): unbound, blank
BlankForm(cls) == [cls |-> cls, bound |-> FALSE, data |-> EmptyDict, initial |-> EmptyDict, errors |-> ""]
\* form_cls(initial=initial)
InitialForm(cls, initial) == [cls |-> cls, bound |-> FALSE, data |-> EmptyDict, initial |-> initial, errors |-> ""]
\* form_cls(request.POST): bound to the submitted data; errors are what validation finds
BoundForm(cls, req) == [cls |-> cls, bound |-> TRUE, data |-> req.POST, initial |-> EmptyDict, errors |-> req.form_errors]
is_valid(f) == f.bound /\ f.errors = ""

\* ---------------------------------------------------------- payment records
NoRecord == [origin |-> "None", flag |-> "", log |-> <<>>]
\* form.save(commit=False)
FormRecord == [origin |-> "form", flag |-> "", log |-> <<>>]
\* PayPalPaymentInfo()
EmptyRecord == [origin |-> "PayPalPaymentInfo", flag |-> "", log |-> <<>>]
Count(log, op) == Cardinality({i \in DOMAIN log : log[i] = op})

\* -------------------------------------------------------------- responses
NoUrl == [base |-> "None", params |-> EmptyDict]
Url(base, params) == [base |-> base, params |-> params]
NoOutcome ==
    [kind |-> "None", url |-> NoUrl, template |-> "None", form |-> NoForm,
     errors |-> "None", request |-> NoRequest, exc |-> "None"]
HttpResponseRedirect(url) == [NoOutcome EXCEPT !.kind = "redirect", !.url = url]
render_to_response(template, form, errors, req) ==
    [NoOutcome EXCEPT !.kind = "render", !.template = template, !.form = form,
                      !.errors = errors, !.request = req]
Raise(exc) == [NoOutcome EXCEPT !.kind = "raise", !.exc = exc]

VARIABLES
    \* attributes of the PayPalPro instance
    item, payment_form_cls, payment_template, confirm_form_cls, confirm_template,
    success_url, fail_url, express_endpoint, self_request,
    \* per running __call__
    pc, request, handler, form, failed, success, payment_obj, response, gateway, outcome

config == <<payment_form_cls, payment_template, confirm_form_cls, confirm_template,
            success_url, fail_url, express_endpoint>>
locals == <<request, handler, form, failed, success, payment_obj, response, gateway, outcome>>
vars == <<item, config, self_request, pc, locals>>

\* PayPalPro.__init__
Init ==
    /\ item \in Intents
    /\ payment_form_cls = "PaymentForm"
    /\ payment_template = "pro/payment.html"
    /\ confirm_form_cls = "ConfirmForm"
    /\ confirm_template = "pro/confirm.html"
    /\ success_url = "?success"
    /\ fail_url \in {None, "?fail"}
    /\ \E test \in BOOLEAN :
         express_endpoint = IF test THEN SANDBOX_EXPRESS_ENDPOINT ELSE EXPRESS_ENDPOINT
    /\ self_request = NoRequest
    /\ pc = [t \in Threads |-> "idle"]
    /\ request = [t \in Threads |-> NoRequest]
    /\ handler = [t \in Threads |-> "None"]
    /\ form = [t \in Threads |-> NoForm]
    /\ failed = [t \in Threads |-> FALSE]
    /\ success = [t \in Threads |-> FALSE]
    /\ payment_obj = [t \in Threads |-> NoRecord]
    /\ response = [t \in Threads |-> EmptyDict]
    /\ gateway = [t \in Threads |-> <<>>]
    /\ outcome = [t \in Threads |-> NoOutcome]

\* A handler gives way to another request's handler only inside its calls to
\* the gateway (process, setExpressCheckout, doExpressCheckoutPayment) and to
\* the store (save): the places where it has such a call behind it and the
\* rest of the method still to run.
InCall(u) ==
    \/ pc[u] \in {"idle", "done", "rte_respond", "vcf_respond", "vpf_respond"}
    \/ pc[u] = "vpf_save" /\ Count(payment_obj[u].log, "process") > 0
Scheduled(t) == \A u \in Threads \ {t} : InCall(u)

\* Dispatch with the confirm test written with `or`.
DispatchAnyMarker(req) ==
    IF req.method = "GET"
    THEN IF Has(req.GET, "express") THEN "redirect_to_express"
         ELSE IF Has(req.GET, "token") \/ Has(req.GET, "PayerID") THEN "render_confirm_form"
         ELSE "render_payment_form"
    ELSE IF Has(req.POST, "token") \/ Has(req.POST, "PayerID") THEN "validate_confirm_form"
         ELSE "validate_payment_form"

\* The branch chain of __call__.
Dispatch(req) ==
    IF req.method = "GET"
    THEN IF Has(req.GET, "express") THEN "redirect_to_express"
         ELSE IF Has(req.GET, "token") /\ Has(req.GET, "PayerID") THEN "render_confirm_form"
         ELSE "render_payment_form"
    ELSE IF Has(req.POST, "token") /\ Has(req.POST, "PayerID") THEN "validate_confirm_form"
         ELSE "validate_payment_form"

\* __call__(request): store the request on the instance and enter the handler.
Call(t, req) ==
    /\ pc[t] = "idle"
    /\ Scheduled(t)
    /\ self_request' = req
    /\ request' = [request EXCEPT ![t] = req]
    /\ handler' = [handler EXCEPT ![t] = Dispatch(req)]
    /\ pc' = [pc EXCEPT ![t] = Dispatch(req)]
    /\ UNCHANGED <<item, config, form, failed, success, payment_obj, response, gateway, outcome>>

\* render_payment_form(context): always a blank form, with the caller's errors if any.
RenderPaymentForm(errors) ==
    render_to_response(payment_template, BlankForm(payment_form_cls), errors, self_request)

Finish(t, out) ==
    /\ outcome' = [outcome EXCEPT ![t] = out]
    /\ pc' = [pc EXCEPT ![t] = "done"]

render_payment_form(t) ==
    /\ pc[t] = "render_payment_form"
    /\ Scheduled(t)
    /\ Finish(t, RenderPaymentForm("None"))
    /\ UNCHANGED <<item, config, self_request, request, handler, form, failed, success,
                   payment_obj, response, gateway>>

\* ConfirmInitial with the two values crossed.
ConfirmInitialCrossed(req) == [token |-> req.GET["PayerID"], PayerID |-> req.GET["token"]]

\* line 180: the initial data of the confirm form
ConfirmInitial(req) == [token |-> req.GET["token"], PayerID |-> req.GET["PayerID"]]

\* render_confirm_form that also keeps the session pair on the instance.
render_confirm_form_keeping_pair(t) ==
    /\ pc[t] = "render_confirm_form"
    /\ Scheduled(t)
    /\ IF Has(self_request.GET, "token") /\ Has(self_request.GET, "PayerID")
       THEN /\ Finish(t, render_to_response(confirm_template,
                        InitialForm(confirm_form_cls, ConfirmInitial(self_request)),
                        "None", self_request))
            /\ item' = Update(item, ConfirmInitial(self_request))
       ELSE /\ Finish(t, Raise("KeyError"))
            /\ item' = item
    /\ UNCHANGED <<config, self_request, request, handler, form, failed, success,
                   payment_obj, response, gateway>>

\* render_confirm_form(): request.GET['token'] raises when the key is missing.
render_confirm_form(t) ==
    /\ pc[t] = "render_confirm_form"
    /\ Scheduled(t)
    /\ IF Has(self_request.GET, "token") /\ Has(self_request.GET, "PayerID")
       THEN Finish(t, render_to_response(confirm_template,
                        InitialForm(confirm_form_cls, ConfirmInitial(self_request)),
                        "None", self_request))
       ELSE Finish(t, Raise("KeyError"))
    /\ UNCHANGED <<item, config, self_request, request, handler, form, failed, success,
                   payment_obj, response, gateway>>

\* The response has been handed back to the caller; the locals are gone.
Return(t) ==
    /\ pc[t] = "done"
    /\ Scheduled(t)
    /\ pc' = [pc EXCEPT ![t] = "idle"]
    /\ request' = [request EXCEPT ![t] = NoRequest]
    /\ handler' = [handler EXCEPT ![t] = "None"]
    /\ form' = [form EXCEPT ![t] = NoForm]
    /\ failed' = [failed EXCEPT ![t] = FALSE]
    /\ success' = [success EXCEPT ![t] = FALSE]
    /\ payment_obj' = [payment_obj EXCEPT ![t] = NoRecord]
    /\ response' = [response EXCEPT ![t] = EmptyDict]
    /\ gateway' = [gateway EXCEPT ![t] = <<>>]
    /\ outcome' = [outcome EXCEPT ![t] = NoOutcome]
    /\ UNCHANGED <<item, config, self_request>>

\* ------------------------------------------------------------ direct flow
\* What the record collaborator is asked to do, in order.
set_flag(obj, msg) == [obj EXCEPT !.flag = msg, !.log = Append(@, "set_flag")]
Logged(obj, op) == [obj EXCEPT !.log = Append(@, op)]
GatewayCall(op, wppRequest, arg) == [op |-> op, request |-> wppRequest, item |-> arg]

\* lines 132-137: the record of a valid form, or an empty flagged one
BuildRecord(f) ==
    IF is_valid(f) THEN FormRecord
    ELSE set_flag(EmptyRecord, "Bad form data: " \o f.errors)

\* validate_payment_form, up to the record being built
BuildForm(t) ==
    /\ pc[t] = "validate_payment_form"
    /\ Scheduled(t)
    /\ LET f == BoundForm(payment_form_cls, self_request) IN
         /\ form' = [form EXCEPT ![t] = f]
         /\ failed' = [failed EXCEPT ![t] = ~is_valid(f)]
         /\ payment_obj' = [payment_obj EXCEPT ![t] = BuildRecord(f)]
    /\ success' = [success EXCEPT ![t] = FALSE]
    /\ pc' = [pc EXCEPT ![t] = "vpf_init"]
    /\ UNCHANGED <<item, config, self_request, request, handler, response, gateway, outcome>>

\* ShouldProcess without the guard.
ShouldProcessAlways(fl) == TRUE

\* line 140: the gateway is asked only when the form validated
ShouldProcess(fl) == ~fl

\* InitRecord that initialises only the records of valid forms.
InitRecordValidOnly(t) ==
    /\ pc[t] = "vpf_init"
    /\ Scheduled(t)
    /\ payment_obj' = [payment_obj EXCEPT ![t] = IF failed[t] THEN @ ELSE Logged(@, "init")]
    /\ pc' = [pc EXCEPT ![t] = IF ShouldProcess(failed[t]) THEN "vpf_process" ELSE "vpf_save"]
    /\ UNCHANGED <<item, config, self_request, request, handler, form, failed, success,
                   response, gateway, outcome>>

\* payment_obj.init(self.request)
InitRecord(t) ==
    /\ pc[t] = "vpf_init"
    /\ Scheduled(t)
    /\ payment_obj' = [payment_obj EXCEPT ![t] = Logged(@, "init")]
    /\ pc' = [pc EXCEPT ![t] = IF ShouldProcess(failed[t]) THEN "vpf_process" ELSE "vpf_save"]
    /\ UNCHANGED <<item, config, self_request, request, handler, form, failed, success,
                   response, gateway, outcome>>

\* success = payment_obj.process(self.request, self.item)
ProcessRecord(t) ==
    /\ pc[t] = "vpf_process"
    /\ Scheduled(t)
    /\ payment_obj' = [payment_obj EXCEPT ![t] = Logged(@, "process")]
    /\ gateway' = [gateway EXCEPT ![t] = Append(@, GatewayCall("process", self_request, item))]
    /\ \E ok \in ProcessResults : success' = [success EXCEPT ![t] = ok]
    /\ pc' = [pc EXCEPT ![t] = "vpf_save"]
    /\ UNCHANGED <<item, config, self_request, request, handler, form, failed,
                   response, outcome>>

\* SaveRecord that keeps only the records of successful payments.
SaveRecordOnSuccess(t) ==
    /\ pc[t] = "vpf_save"
    /\ Scheduled(t)
    /\ payment_obj' = [payment_obj EXCEPT ![t] = IF success[t] THEN Logged(@, "save") ELSE @]
    /\ pc' = [pc EXCEPT ![t] = "vpf_respond"]
    /\ UNCHANGED <<item, config, self_request, request, handler, form, failed, success,
                   response, gateway, outcome>>

\* payment_obj.save()
SaveRecord(t) ==
    /\ pc[t] = "vpf_save"
    /\ Scheduled(t)
    /\ payment_obj' = [payment_obj EXCEPT ![t] = Logged(@, "save")]
    /\ pc' = [pc EXCEPT ![t] = "vpf_respond"]
    /\ UNCHANGED <<item, config, self_request, request, handler, form, failed, success,
                   response, gateway, outcome>>

\* PaymentResponse that shows a fresh form after a failure.
PaymentResponseBlankForm(ok, f) ==
    IF ok THEN HttpResponseRedirect(Url(success_url, EmptyDict))
    ELSE IF fail_url # None THEN HttpResponseRedirect(Url(fail_url, EmptyDict))
    ELSE render_to_response(payment_template, BlankForm(payment_form_cls), CorrectError, self_request)

\* PaymentResponse that never looks at the fail target.
PaymentResponseNoFailTarget(ok, f) ==
    IF ok THEN HttpResponseRedirect(Url(success_url, EmptyDict))
    ELSE render_to_response(payment_template, f, CorrectError, self_request)

\* PaymentResponse that looks at the fail target first.
PaymentResponseFailFirst(ok, f) ==
    IF fail_url # None THEN HttpResponseRedirect(Url(fail_url, EmptyDict))
    ELSE IF ok THEN HttpResponseRedirect(Url(success_url, EmptyDict))
    ELSE render_to_response(payment_template, f, CorrectError, self_request)

\* lines 143-152: success, else the fail target, else the bound form again
PaymentResponse(ok, f) ==
    IF ok THEN HttpResponseRedirect(Url(success_url, EmptyDict))
    ELSE IF fail_url # None THEN HttpResponseRedirect(Url(fail_url, EmptyDict))
    ELSE render_to_response(payment_template, f, CorrectError, self_request)

PaymentRespond(t) ==
    /\ pc[t] = "vpf_respond"
    /\ Scheduled(t)
    /\ Finish(t, PaymentResponse(success[t], form[t]))
    /\ UNCHANGED <<item, config, self_request, request, handler, form, failed, success,
                   payment_obj, response, gateway>>

\* ----------------------------------------------------------- express flow
\* SetExpressCheckout that asks the gateway a second time.
SetExpressCheckoutTwice(t) ==
    /\ pc[t] = "redirect_to_express"
    /\ Scheduled(t)
    /\ gateway' = [gateway EXCEPT ![t] =
                      Append(Append(@, GatewayCall("setExpressCheckout", self_request, item)),
                             GatewayCall("setExpressCheckout", self_request, item))]
    /\ \E r \in Responses : response' = [response EXCEPT ![t] = r]
    /\ pc' = [pc EXCEPT ![t] = "rte_respond"]
    /\ UNCHANGED <<item, config, self_request, request, handler, form, failed, success,
                   payment_obj, outcome>>

\* wpp = PayPalWPP(self.request); response = wpp.setExpressCheckout(self.item)
SetExpressCheckout(t) ==
    /\ pc[t] = "redirect_to_express"
    /\ Scheduled(t)
    /\ gateway' = [gateway EXCEPT ![t] =
                      Append(@, GatewayCall("setExpressCheckout", self_request, item))]
    /\ \E r \in Responses : response' = [response EXCEPT ![t] = r]
    /\ pc' = [pc EXCEPT ![t] = "rte_respond"]
    /\ UNCHANGED <<item, config, self_request, request, handler, form, failed, success,
                   payment_obj, outcome>>

\* line 167: the endpoint the payer is sent to
RedirectEndpoint == SANDBOX_EXPRESS_ENDPOINT

\* lines 162-171.  self.item['amt'] raises TypeError on None and KeyError on
\* a missing key.
ExpressResponse(r) ==
    IF Get(r, "ACK") = "Success" /\ Has(r, "TOKEN")
    THEN IF item = NoneItem THEN Raise("TypeError")
         ELSE IF ~({"amt", "returnurl", "cancelurl"} \subseteq DOMAIN item) THEN Raise("KeyError")
         ELSE HttpResponseRedirect(Url(RedirectEndpoint,
                  [token |-> r["TOKEN"], AMT |-> item["amt"],
                   RETURNURL |-> item["returnurl"], CANCELURL |-> item["cancelurl"]]))
    ELSE RenderPaymentForm(ContactError)

\* ExpressRespond that records the endpoint it used on the instance.
ExpressRespondStoringEndpoint(t) ==
    /\ pc[t] = "rte_respond"
    /\ Scheduled(t)
    /\ Finish(t, ExpressResponse(response[t]))
    /\ express_endpoint' = RedirectEndpoint
    /\ UNCHANGED <<item, payment_form_cls, payment_template, confirm_form_cls,
                   confirm_template, success_url, fail_url, self_request, request, handler,
                   form, failed, success, payment_obj, response, gateway>>

ExpressRespond(t) ==
    /\ pc[t] = "rte_respond"
    /\ Scheduled(t)
    /\ Finish(t, ExpressResponse(response[t]))
    /\ UNCHANGED <<item, config, self_request, request, handler, form, failed, success,
                   payment_obj, response, gateway>>

\* line 191: the session pair as the gateway names it
pp_data(req) == [token |-> req.POST["token"], payerid |-> req.POST["PayerID"]]

\* line 192: self.item.update(pp_data)
MergedItem(it, data) == Update(it, data)

\* validate_confirm_form up to the gateway's answer.  request.POST['token']
\* raises KeyError on a missing key, None.update raises AttributeError.
DoExpressCheckoutPayment(t) ==
    /\ pc[t] = "validate_confirm_form"
    /\ Scheduled(t)
    /\ IF ~(Has(self_request.POST, "token") /\ Has(self_request.POST, "PayerID"))
       THEN /\ Finish(t, Raise("KeyError"))
            /\ UNCHANGED <<item, response, gateway>>
       ELSE IF item = NoneItem
       THEN /\ Finish(t, Raise("AttributeError"))
            /\ UNCHANGED <<item, response, gateway>>
       ELSE /\ item' = MergedItem(item, pp_data(self_request))
            /\ gateway' = [gateway EXCEPT ![t] =
                              Append(@, GatewayCall("doExpressCheckoutPayment", self_request, item'))]
            /\ \E r \in Responses : response' = [response EXCEPT ![t] = r]
            /\ pc' = [pc EXCEPT ![t] = "vcf_respond"]
            /\ UNCHANGED outcome
    /\ UNCHANGED <<config, self_request, request, handler, form, failed, success, payment_obj>>

\* lines 194-198
ConfirmResponse(r) ==
    IF Get(r, "ACK") = "Success" THEN HttpResponseRedirect(Url(success_url, EmptyDict))
    ELSE RenderPaymentForm(ProcessingError)

ConfirmRespond(t) ==
    /\ pc[t] = "vcf_respond"
    /\ Scheduled(t)
    /\ Finish(t, ConfirmResponse(response[t]))
    /\ UNCHANGED <<item, config, self_request, request, handler, form, failed, success,
                   payment_obj, response, gateway>>

\* ------------------------------------------------------------ specifications
Idle == \A t \in Threads : pc[t] = "idle"

\* One request is handled to completion before the next is taken, by the
\* one worker of a sequential server.
CallSeq(req) == Idle /\ Call(CHOOSE t \in Threads : TRUE, req)

Step(t) ==
    \/ render_payment_form(t)
    \/ render_confirm_form(t)
    \/ BuildForm(t)
    \/ InitRecord(t)
    \/ ProcessRecord(t)
    \/ SaveRecord(t)
    \/ PaymentRespond(t)
    \/ SetExpressCheckout(t)
    \/ ExpressRespond(t)
    \/ DoExpressCheckoutPayment(t)
    \/ ConfirmRespond(t)
    \/ Return(t)

Next ==
    \/ \E req \in Requests : CallSeq(req)
    \/ \E t \in Threads : Step(t)

Spec == Init /\ [][Next]_vars

\* Several requests in flight on the one instance (a threaded server).
\* One request of each shape, and two express sessions.
Session(i) == [token |-> "EC-" \o ToString(i), PayerID |-> "PAYER-" \o ToString(i)]
ConcRequests ==
    { r \in Requests :
        \/ r.method = "GET" /\ r.GET \in {EmptyDict, [express |-> "1"], Session(1)}
        \/ /\ r.method = "POST" /\ r.form_errors = ""
           /\ r.POST \in {EmptyDict, Session(1), Session(NumTokens)} }

InitConc ==
    /\ Init
    /\ item = FullItem
    /\ fail_url = None
    /\ express_endpoint = SANDBOX_EXPRESS_ENDPOINT

NextConc ==
    \/ \E t \in Threads, req \in ConcRequests : Call(t, req)
    \/ \E t \in Threads : Step(t)

SpecConc == InitConc /\ [][NextConc]_vars

TypeOK ==
    /\ pc \in [Threads -> {"idle", "render_payment_form", "render_confirm_form",
                           "validate_payment_form", "vpf_init", "vpf_process", "vpf_save",
                           "vpf_respond", "redirect_to_express", "rte_respond",
                           "validate_confirm_form", "vcf_respond", "done"}]
    /\ \A t \in Threads : outcome[t].kind \in {"None", "render", "redirect", "raise"}

\* ------------------------------------------------------------------ claims
Running(t) == pc[t] # "idle"
Done(t) == pc[t] = "done"
Saves(t) == Count(payment_obj[t].log, "save")
Direct(t) == handler[t] = "validate_payment_form"
HasPair(d) == Has(d, "token") /\ Has(d, "PayerID")

\* The steps that belong to each handler.
StepsOf(h) ==
    CASE h = "render_payment_form" -> {"render_payment_form"}
      [] h = "render_confirm_form" -> {"render_confirm_form"}
      [] h = "redirect_to_express" -> {"redirect_to_express", "rte_respond"}
      [] h = "validate_confirm_form" -> {"validate_confirm_form", "vcf_respond"}
      [] h = "validate_payment_form" ->
            {"validate_payment_form", "vpf_init", "vpf_process", "vpf_save", "vpf_respond"}
      [] OTHER -> {}

\* The priority chain as the dispatch contract words it.
Routed(req) ==
    CASE req.method = "GET" /\ Has(req.GET, "express") -> "redirect_to_express"
      [] req.method = "GET" /\ ~Has(req.GET, "express") /\ HasPair(req.GET) -> "render_confirm_form"
      [] req.method = "GET" /\ ~Has(req.GET, "express") /\ ~HasPair(req.GET) -> "render_payment_form"
      [] req.method # "GET" /\ HasPair(req.POST) -> "validate_confirm_form"
      [] req.method # "GET" /\ ~HasPair(req.POST) -> "validate_payment_form"

\* C1: every request in hand runs the one handler the ordered chain picks
\* for it, and only that handler's steps; a POST with token and PayerID is
\* never in validate_payment_form, however valid its payment form.
C1_DispatchChain ==
    \A t \in Threads : Running(t) =>
        /\ handler[t] = Routed(request[t])
        /\ pc[t] \in StepsOf(handler[t]) \cup {"done"}
        /\ (request[t].method = "POST" /\ HasPair(request[t].POST))
              => ~Direct(t) /\ payment_obj[t] = NoRecord

C1_Witness ==
    \E t \in Threads :
        /\ Done(t)
        /\ request[t].method = "POST" /\ HasPair(request[t].POST)
        /\ request[t].form_errors = ""
        /\ handler[t] = "validate_confirm_form"

\* C2: in validate_payment_form the record is saved at most once at any
\* point, and exactly once by the time a response exists, on all three paths.
C2_PersistOnceBeforeResponse ==
    \A t \in Threads : Direct(t) =>
        /\ Saves(t) <= 1
        /\ (Done(t) \/ outcome[t].kind # "None") => Saves(t) = 1
        /\ pc[t] = "vpf_respond" => Saves(t) = 1

C2_Witness ==
    \E t \in Threads :
        /\ Direct(t) /\ Done(t)
        /\ ~failed[t] /\ ~success[t]
        /\ Saves(t) = 1
        /\ outcome[t].kind \in {"render", "redirect"}

\* C3: a submission whose form fails validation gets a fresh empty record
\* flagged with the validation errors, saved exactly once by the time of the
\* response, and process is never invoked for it.
C3_InvalidForm ==
    \A t \in Threads :
        (Direct(t) /\ pc[t] # "validate_payment_form" /\ request[t].form_errors # "") =>
            /\ failed[t]
            /\ payment_obj[t].origin = "PayPalPaymentInfo"
            /\ payment_obj[t].flag = "Bad form data: " \o request[t].form_errors
            /\ Head(payment_obj[t].log) = "set_flag"
            /\ Count(payment_obj[t].log, "process") = 0
            /\ gateway[t] = <<>>
            /\ Saves(t) <= 1
            /\ Done(t) => Saves(t) = 1

C3_Witness ==
    \E t \in Threads :
        /\ Direct(t) /\ Done(t)
        /\ request[t].form_errors = "cvv2: Enter a whole number."
        /\ payment_obj[t].log = <<"set_flag", "init", "save">>

\* C4: a valid form whose process returns success ends in a redirect to the
\* success target with one record saved, and that record carries no flag.
C4_SuccessRedirect ==
    \A t \in Threads :
        (Direct(t) /\ Done(t) /\ request[t].form_errors = "" /\ success[t]) =>
            /\ outcome[t] = HttpResponseRedirect(Url(success_url, EmptyDict))
            /\ Saves(t) = 1
            /\ payment_obj[t].origin = "form"
            /\ payment_obj[t].flag = ""

C4_Witness ==
    \E t \in Threads :
        /\ Direct(t) /\ Done(t) /\ success[t]
        /\ fail_url # None
        /\ outcome[t].url.base = success_url

\* What C5 promises for a request: the confirm form, filled with the query's
\* own token and PayerID, and nothing asked of the gateway or the store.
ConfirmRendered(t) ==
    /\ outcome[t].kind = "render"
    /\ outcome[t].template = confirm_template
    /\ outcome[t].form.cls = confirm_form_cls
    /\ outcome[t].form.initial =
          [token |-> request[t].GET["token"], PayerID |-> request[t].GET["PayerID"]]
    /\ gateway[t] = <<>>
    /\ payment_obj[t] = NoRecord

\* C5 as stated: every GET with token and PayerID, whatever else it carries,
\* ends in the pre-filled confirm form.
C5_Original ==
    \A t \in Threads :
        (Done(t) /\ request[t].method = "GET" /\ HasPair(request[t].GET)) => ConfirmRendered(t)

\* C5: every GET with token and PayerID and without `express` ends in the
\* confirm form pre-filled with exactly those values, with no gateway call
\* and no record.
C5_ConfirmRender ==
    \A t \in Threads :
        (request[t].method = "GET" /\ HasPair(request[t].GET) /\ ~Has(request[t].GET, "express")) =>
            /\ gateway[t] = <<>>
            /\ payment_obj[t] = NoRecord
            /\ Done(t) => ConfirmRendered(t)

C5_Witness ==
    \E t \in Threads :
        /\ Done(t)
        /\ request[t].method = "GET" /\ ~Has(request[t].GET, "express")
        /\ HasPair(request[t].GET)
        /\ outcome[t].form.initial = [token |-> "EC-2", PayerID |-> "PAYER-1"]

Express(t) == handler[t] = "redirect_to_express"
Accepted(r) == Get(r, "ACK") = "Success" /\ Has(r, "TOKEN")

\* C6: a redirect produced by redirect_to_express goes to the endpoint chosen
\* at construction, so never to the sandbox when test was false.
C6_Original ==
    \A t \in Threads :
        (Express(t) /\ Done(t) /\ outcome[t].kind = "redirect") =>
            outcome[t].url.base = express_endpoint

\* C7: no step of any handler changes the Purchase Intent.
C7_Original == [][item' = item]_vars

\* C8: with requests in flight together, whatever a handler reads comes from
\* the request it was dispatched for: the request its gateway calls are made
\* for, the pair sent to doExpressCheckoutPayment, the data its form is bound
\* to and the request its render is given.
C8_Original ==
    \A t \in Threads : Running(t) =>
        /\ \A i \in DOMAIN gateway[t] :
             /\ gateway[t][i].request = request[t]
             /\ gateway[t][i].op = "doExpressCheckoutPayment" =>
                  /\ HasPair(request[t].POST)
                  /\ Get(gateway[t][i].item, "token") = request[t].POST["token"]
                  /\ Get(gateway[t][i].item, "payerid") = request[t].POST["PayerID"]
        /\ form[t].bound => form[t].data = request[t].POST
        /\ outcome[t].kind = "render" => outcome[t].request = request[t]

\* C9: every request ends in a render or a redirect; nothing is raised.
C9_Original ==
    \A t \in Threads :
        /\ outcome[t].kind # "raise"
        /\ Done(t) => outcome[t].kind \in {"render", "redirect"}

\* C10: redirect_to_express calls setExpressCheckout once with the intent and
\* creates no record; it redirects to an express endpoint with the response's
\* TOKEN and the intent's amt, returnurl and cancelurl exactly when the
\* response has ACK Success and a TOKEN, and otherwise renders the payment
\* form with the cannot-contact error.
C10_Original ==
    \A t \in Threads : (Express(t) /\ Done(t)) =>
        /\ Len(gateway[t]) = 1
        /\ gateway[t][1].op = "setExpressCheckout"
        /\ gateway[t][1].item = item
        /\ payment_obj[t] = NoRecord
        /\ IF Accepted(response[t])
           THEN /\ outcome[t].kind = "redirect"
                /\ outcome[t].url.base \in {EXPRESS_ENDPOINT, SANDBOX_EXPRESS_ENDPOINT}
                /\ outcome[t].url.params =
                      [token |-> response[t]["TOKEN"], AMT |-> Get(item, "amt"),
                       RETURNURL |-> Get(item, "returnurl"), CANCELURL |-> Get(item, "cancelurl")]
           ELSE /\ outcome[t].kind = "render"
                /\ outcome[t].template = payment_template
                /\ outcome[t].errors = ContactError

Confirm(t) == handler[t] = "validate_confirm_form"

\* C11: validate_confirm_form merges the body's token and PayerID into the
\* intent and calls doExpressCheckoutPayment exactly once with the augmented
\* intent; it redirects to the success target exactly when the response has
\* ACK Success and otherwise renders the payment form with the
\* processing-failed error; the fail target is never used and no record is
\* built or saved.
C11_Original ==
    \A t \in Threads : (Confirm(t) /\ Done(t)) =>
        /\ Len(gateway[t]) = 1
        /\ gateway[t][1].op = "doExpressCheckoutPayment"
        /\ gateway[t][1].item = item
        /\ Get(item, "token") = request[t].POST["token"]
        /\ Get(item, "payerid") = request[t].POST["PayerID"]
        /\ payment_obj[t] = NoRecord
        /\ fail_url # None => outcome[t].url.base # fail_url
        /\ IF Get(response[t], "ACK") = "Success"
           THEN outcome[t] = HttpResponseRedirect(Url(success_url, EmptyDict))
           ELSE /\ outcome[t].kind = "render"
                /\ outcome[t].template = payment_template
                /\ outcome[t].form = BlankForm(payment_form_cls)
                /\ outcome[t].errors = ProcessingError

\* A direct submission that has its response and did not succeed.
DirectFailed(t) == Direct(t) /\ Done(t) /\ ~success[t]

\* C12: with no fail target, a direct submission that does not succeed (form
\* invalid or process failed) gets the payment form rendered again with the
\* form bound to what was submitted and a non-empty message, not a redirect.
C12_RerenderBoundForm ==
    \A t \in Threads : (DirectFailed(t) /\ fail_url = None) =>
        /\ outcome[t].kind = "render"
        /\ outcome[t].template = payment_template
        /\ outcome[t].form.bound
        /\ outcome[t].form.cls = payment_form_cls
        /\ outcome[t].form.data = request[t].POST
        /\ outcome[t].form.errors = request[t].form_errors
        /\ outcome[t].errors = CorrectError /\ CorrectError # ""
        /\ outcome[t].url = NoUrl

C12_Witness ==
    \E t \in Threads :
        /\ DirectFailed(t) /\ fail_url = None
        /\ request[t].form_errors = ""
        /\ Count(payment_obj[t].log, "process") = 1
        /\ Has(request[t].POST, "token")
        /\ outcome[t].form.data = request[t].POST

\* C13: with a fail target, a direct submission that does not succeed is
\* redirected to it once the record is saved and the form is not rendered;
\* the success target is the answer only when process returned success.
C13_FailRedirect ==
    \A t \in Threads : (Direct(t) /\ Done(t)) =>
        /\ (~success[t] /\ fail_url # None) =>
              /\ outcome[t] = HttpResponseRedirect(Url(fail_url, EmptyDict))
              /\ Saves(t) = 1
        /\ outcome[t].url.base = success_url =>
              success[t] /\ Count(payment_obj[t].log, "process") = 1

C13_Witness ==
    \E t \in Threads :
        /\ DirectFailed(t) /\ fail_url = "?fail"
        /\ failed[t]
        /\ outcome[t].url.base = "?fail"
        /\ Saves(t) = 1

RenderOnly(t) == handler[t] \in {"render_payment_form", "render_confirm_form"}

\* The page a render handler owes a request: it depends on the request and
\* the configuration alone.
PureRender(h, req) ==
    IF h = "render_confirm_form"
    THEN render_to_response(confirm_template,
             InitialForm(confirm_form_cls,
                 [token |-> req.GET["token"], PayerID |-> req.GET["PayerID"]]),
             "None", req)
    ELSE render_to_response(payment_template, BlankForm(payment_form_cls), "None", req)

\* C14: while a request dispatched to render_payment_form or
\* render_confirm_form is handled, no step changes the intent or the
\* configuration, calls the gateway or touches a record, and the page it ends
\* with is the one fixed by the request, so a repeated request renders the same.
C14_RendersPure ==
    [][\A t \in Threads : RenderOnly(t) =>
          /\ item' = item
          /\ config' = config
          /\ gateway'[t] = <<>>
          /\ payment_obj'[t] = NoRecord
          /\ pc'[t] = "done" => outcome'[t] = PureRender(handler[t], request[t])]_vars

C14_Witness ==
    \E t \in Threads :
        /\ Done(t) /\ handler[t] = "render_confirm_form"
        /\ outcome[t].kind = "render"
        /\ item = FullItem
        /\ gateway[t] = <<>>

IsPrefix(a, b) == Len(a) <= Len(b) /\ \A i \in 1..Len(a) : a[i] = b[i]

\* The record's calls in the order the lifecycle allows them.
Lifecycle(req) ==
    IF req.form_errors = "" THEN <<"init", "process", "save">>
    ELSE <<"set_flag", "init", "save">>

\* C15: in validate_payment_form the record's calls follow the lifecycle:
\* the flag of an invalid form comes first, init once on either path,
\* process once after init and only for a valid form, save last, and all of
\* them before the response.
C15_Lifecycle ==
    \A t \in Threads : Direct(t) =>
        /\ IsPrefix(payment_obj[t].log, Lifecycle(request[t]))
        /\ pc[t] = "vpf_process" => payment_obj[t].log = <<"init">>
        /\ (Done(t) \/ outcome[t].kind # "None") => payment_obj[t].log = Lifecycle(request[t])

C15_Witness ==
    \E t \in Threads :
        /\ Direct(t) /\ Done(t)
        /\ payment_obj[t].log = <<"init", "process", "save">>
        /\ ~success[t]
        /\ outcome[t].kind = "render"

\* C16: the intent handed to setExpressCheckout or to process never carries
\* the token or payer-id of an express session confirmed earlier on the
\* instance.
C16_Original ==
    \A t \in Threads : \A i \in DOMAIN gateway[t] :
        gateway[t][i].op \in {"setExpressCheckout", "process"} =>
            /\ ~Has(gateway[t][i].item, "token")
            /\ ~Has(gateway[t][i].item, "payerid")

\* C17: no step of any handler changes a configuration attribute, so each
\* keeps the value the constructor gave it.
C17_ConfigFixed ==
    [][/\ payment_form_cls' = payment_form_cls
       /\ payment_template' = payment_template
       /\ confirm_form_cls' = confirm_form_cls
       /\ confirm_template' = confirm_template
       /\ success_url' = success_url
       /\ fail_url' = fail_url
       /\ express_endpoint' = express_endpoint]_vars

C17_Witness ==
    \E t \in Threads :
        /\ Done(t) /\ Express(t)
        /\ outcome[t].kind = "redirect"
        /\ outcome[t].url.base = SANDBOX_EXPRESS_ENDPOINT
        /\ express_endpoint = EXPRESS_ENDPOINT
        /\ Has(item, "token")

\* The one gateway operation each handler may use.
GatewayOpOf(h) ==
    CASE h = "redirect_to_express" -> {"setExpressCheckout"}
      [] h = "validate_confirm_form" -> {"doExpressCheckoutPayment"}
      [] h = "validate_payment_form" -> {"process"}
      [] OTHER -> {}

\* C18: a request makes at most one gateway call, the one that belongs to
\* its handler (process only for a valid form), and nothing is asked again
\* after a failure or for the error page.
C18_OneGatewayCall ==
    \A t \in Threads :
        /\ Len(gateway[t]) <= 1
        /\ \A i \in DOMAIN gateway[t] :
             /\ gateway[t][i].op \in GatewayOpOf(handler[t])
             /\ gateway[t][i].op = "process" => request[t].form_errors = ""
        /\ Direct(t) => Len(gateway[t]) = Count(payment_obj[t].log, "process")
        /\ (Done(t) /\ outcome[t].kind = "render" /\ outcome[t].errors # "None") =>
              Len(gateway[t]) = (IF Direct(t) /\ failed[t] THEN 0 ELSE 1)

C18_Witness ==
    \E t \in Threads :
        /\ Done(t) /\ Express(t)
        /\ outcome[t].kind = "render" /\ outcome[t].errors = ContactError
        /\ Get(response[t], "ACK") = "Failure"
        /\ Len(gateway[t]) = 1

====
